---- MODULE Spec2Model ----
(***************************************************************************)
(* Room-scoped peer discovery registry of the relay (relay/src/main.rs).   *)
(*                                                                         *)
(* The registry is HashMap<String, HashMap<String, PeerEntry>> behind one  *)
(* tokio Mutex.  A HashMap is modelled as a TLA+ function whose DOMAIN is  *)
(* the key set, so a room that is present with no entries (DOMAIN = {})    *)
(* is different from a room that is absent.  Instants are whole seconds.   *)
(* A DiscoveryResponse is the Vec<PeerInfo> collected from a HashMap       *)
(* iterator: the order is unspecified and the keys are unique, so it is    *)
(* modelled as the set of its PeerInfo records.                            *)
(***************************************************************************)
EXTENDS Integers, Sequences, FiniteSets, TLC

\* ---- bounds of the model ----
MaxTime == 31
MaxEvents == 3
MaxRuns == 3
MaxEstablished == 2

\* ---- inputs ----
RoomNames == {"lobby", "side"}
ConnPeers == {1, 2, 3}
PeerStrs  == {"P1", "P2", "P3"}
AddrSets  == {<< >>, <<"a1">>}
TickSteps == {15, 16}

\* ---- program constants ----
PEER_TTL == 30

VARIABLES
    rooms,      \* the registry map: room name -> (peer_id -> PeerEntry)
    clock,      \* the monotonic clock read by Instant::now()
    pc,         \* position of the event loop
    locked,     \* whether the registry Mutex is held
    cur,        \* the event being handled
    now,        \* the local `now` of handle_discovery
    response,   \* the DiscoveryResponse computed by handle_discovery
    pre,        \* history: the registry as the handler in progress found it
    events,     \* number of events taken from the swarm so far
    lastReg,    \* history: per (room, peer_id), the time of the latest registration
                \* applied that no remove_peer of that peer_id has followed
    traced,     \* whether this specification records `via`
    via,        \* history, when traced: per (room, peer_id), the connection the
                \* latest registration applied came over (NoConn: none)
    since,      \* history: per (room, peer_id), the time of the first registration
                \* of the run of registrations, each less than PEER_TTL after the
                \* one before and none followed by remove_peer, that lastReg ends
    file,       \* the identity file: whether it exists, and its bytes
    boot,       \* position of main() from its start to the event loop
    key,        \* the keypair load_or_create_identity holds (NoKey: none yet)
    runs,       \* number of times the process has been started
    persisted,  \* history: the keypair of the latest successful fs::write
    prior,      \* history: the keypair an earlier run persisted, when the file
                \* still held its encoding at the start of this run
    startFile,  \* history: the identity file at the start of this run
    gens,       \* history: keypairs generated in this run
    readErr     \* history: fs::read failed in this run on a file that exists

regvars == <<rooms, clock, pc, locked, cur, now, response, pre, events, traced, via, lastReg, since>>
idvars == <<file, boot, key, runs, persisted, prior, startFile, gens, readErr>>
vars == <<regvars, idvars>>

NoTime == -1
NoConn == 0
NoEvent == [kind |-> "none"]
NoResponse == [none |-> TRUE]
EmptyMap == [k \in {} |-> k]

\* PeerId::to_string(): an injective rendering of the connection's PeerId.
PeerIdToString(p) == <<"P1", "P2", "P3">>[p]

\* Instant::duration_since saturates to zero when `earlier` is later.
DurationSince(later, earlier) == IF later >= earlier THEN later - earlier ELSE 0

\* The predicate given to retain(): the entries that are kept.
FreshMut(entry, t) == DurationSince(t, entry.last_seen) <= PEER_TTL
Fresh(entry, t) == DurationSince(t, entry.last_seen) < PEER_TTL

\* HashMap::retain on one room.
RetainInverted(room, t) == [p \in {q \in DOMAIN room : ~Fresh(room[q], t)} |-> room[p]]
Retain(room, t) == [p \in {q \in DOMAIN room : Fresh(room[q], t)} |-> room[p]]

\* if let Some(room) = rooms.get_mut(&req.room) { room.retain(..) }
PruneSkip(rs, r, t) == rs
PruneEvery(rs, r, t) == [x \in DOMAIN rs |-> Retain(rs[x], t)]
Prune(rs, r, t) ==
    IF r \in DOMAIN rs THEN [rs EXCEPT ![r] = Retain(rs[r], t)] ELSE rs

\* rooms.entry(room).or_default()
EntryOrDefault(rs, r) ==
    [x \in DOMAIN rs \cup {r} |-> IF x \in DOMAIN rs THEN rs[x] ELSE EmptyMap]

\* HashMap::insert: the value under an existing key is replaced.
MapInsertKeepOld(m, k, v) ==
    [x \in DOMAIN m \cup {k} |-> IF x \in DOMAIN m THEN m[x] ELSE v]
MapInsertMerge(m, k, v) ==
    [x \in DOMAIN m \cup {k} |->
        IF x # k THEN m[x]
        ELSE IF k \in DOMAIN m
             THEN [addrs |-> m[k].addrs \o v.addrs, last_seen |-> v.last_seen]
             ELSE v]
MapInsert(m, k, v) == [x \in DOMAIN m \cup {k} |-> IF x = k THEN v ELSE m[x]]

\* HashMap::remove
MapRemove(m, k) == [x \in DOMAIN m \ {k} |-> m[x]]

\* Insert/update the requesting peer.
UpsertLost(rs, req, t) ==
    [x \in DOMAIN rs \cup {req.room} |->
        IF x = req.room
        THEN MapInsert(EmptyMap, req.peer_id, [addrs |-> req.addrs, last_seen |-> t])
        ELSE rs[x]]
Upsert(rs, req, t) ==
    LET rs1 == EntryOrDefault(rs, req.room)
    IN  [rs1 EXCEPT ![req.room] =
            MapInsert(rs1[req.room], req.peer_id,
                      [addrs |-> req.addrs, last_seen |-> t])]

\* Collect all other peers in the room.
CollectPeersAll(rs, r, peer_id) ==
    {[peer_id |-> p, addrs |-> rs[r][p].addrs] : p \in DOMAIN rs[r]}
CollectPeersAnyRoom(rs, r, peer_id) ==
    UNION {{[peer_id |-> p, addrs |-> rs[x][p].addrs] :
               p \in DOMAIN rs[x] \ {peer_id}} : x \in DOMAIN rs}
CollectPeers(rs, r, peer_id) ==
    {[peer_id |-> p, addrs |-> rs[r][p].addrs] : p \in DOMAIN rs[r] \ {peer_id}}

\* The critical section of handle_discovery: prune, upsert, snapshot.
HandleDiscovery(rs, req, t) ==
    LET upserted == Upsert(Prune(rs, req.room, t), req, t)
    IN  [rooms |-> upserted,
         peers |-> CollectPeers(upserted, req.room, req.peer_id)]

\* remove_peer: drop the peer from every room, then drop the empty rooms.
RemovePeerKeepEmpty(rs, peer_str) ==
    [r \in DOMAIN rs |-> MapRemove(rs[r], peer_str)]
RemovePeerFirstRoom(rs, peer_str) ==
    LET holders == {r \in DOMAIN rs : peer_str \in DOMAIN rs[r]}
        first == IF holders = {} THEN {}
                 ELSE {CHOOSE r \in holders : TRUE}
        removed == [r \in DOMAIN rs |->
                       IF r \in first THEN MapRemove(rs[r], peer_str) ELSE rs[r]]
        empty_rooms == {r \in DOMAIN rs : DOMAIN removed[r] = {}}
    IN  [r \in DOMAIN rs \ empty_rooms |-> removed[r]]
RemovePeerDropRooms(rs, peer_str) ==
    [r \in {x \in DOMAIN rs : peer_str \notin DOMAIN rs[x]} |-> rs[r]]
RemovePeer(rs, peer_str) ==
    LET removed == [r \in DOMAIN rs |-> MapRemove(rs[r], peer_str)]
        empty_rooms == {r \in DOMAIN rs : DOMAIN removed[r] = {}}
    IN  [r \in DOMAIN rs \ empty_rooms |-> removed[r]]

\* The ConnectionClosed arm of the event loop: the pattern binds peer_id and
\* cause and drops the rest of the event, among it num_established, the
\* number of connections to that peer still open; remove_peer is called
\* whatever it is.
ConnectionClosedLastOnly(rs, peer_id, num_established) ==
    IF num_established = 0
    THEN RemovePeer(rs, PeerIdToString(peer_id))
    ELSE rs
ConnectionClosed(rs, peer_id, num_established) ==
    RemovePeer(rs, PeerIdToString(peer_id))

\* ---- the identity file (load_or_create_identity) ----

Seeds == {1, 2}
NoKey == 0
RAW_KEY_LEN == 32

\* The 32 bytes of an Ed25519 secret key and of its public key; a keypair is
\* named by the byte its secret key repeats.
SecretBytes(k) == [i \in 1..RAW_KEY_LEN |-> k]
PublicBytes(k) == [i \in 1..RAW_KEY_LEN |-> k + 100]

\* The peer id is derived from the public key.
PeerIdOf(k) == PublicBytes(k)

\* Keypair::to_protobuf_encoding: key type Ed25519, then 64 bytes of data,
\* secret key followed by public key.
ToProtobufEncoding(k) == <<8, 1, 18, 64>> \o SecretBytes(k) \o PublicBytes(k)

\* Keypair::from_protobuf_encoding: NoKey stands for Err.
FromProtobufEncoding(data) ==
    IF /\ Len(data) = 4 + 2 * RAW_KEY_LEN
       /\ SubSeq(data, 1, 4) = <<8, 1, 18, 64>>
       /\ \A i \in 5..(4 + RAW_KEY_LEN) : data[i] = data[5]
       /\ SubSeq(data, 5 + RAW_KEY_LEN, 4 + 2 * RAW_KEY_LEN) = PublicBytes(data[5])
    THEN data[5]
    ELSE NoKey

\* Keypair::ed25519_from_bytes: any 32 bytes are a secret key.
Ed25519FromBytes(data) ==
    IF Len(data) = RAW_KEY_LEN /\ \A i \in 1..RAW_KEY_LEN : data[i] = data[1]
    THEN data[1]
    ELSE NoKey

\* What load_or_create_identity makes of the bytes it read: the protobuf
\* decoding first, then the raw 32-byte secret key; NoKey when neither works.
DecodeIdentityRawOnly(data) ==
    IF Len(data) = RAW_KEY_LEN THEN Ed25519FromBytes(data) ELSE NoKey
DecodeIdentity(data) ==
    IF FromProtobufEncoding(data) # NoKey THEN FromProtobufEncoding(data)
    ELSE IF Len(data) = RAW_KEY_LEN THEN Ed25519FromBytes(data)
    ELSE NoKey

Absent == [exists |-> FALSE, data |-> << >>]
FileOf(data) == [exists |-> TRUE, data |-> data]

\* Files an operator can leave at the identity path: none, an encoded
\* keypair, a raw secret key, an empty file, a cut-off encoding, 31 bytes.
IdentityFiles ==
    {Absent}
    \cup {FileOf(ToProtobufEncoding(k)) : k \in Seeds}
    \cup {FileOf(SecretBytes(k)) : k \in Seeds}
    \cup {FileOf(<< >>),
          FileOf(SubSeq(ToProtobufEncoding(1), 1, 40)),
          FileOf([i \in 1..(RAW_KEY_LEN - 1) |-> 1])}

Undecodable(f) == f.exists /\ DecodeIdentity(f.data) = NoKey

Requests == [room : RoomNames, peer_id : PeerStrs, addrs : AddrSets]

\* handle_discovery(&registry, request): the handler is given the payload and
\* not the peer the request came from.
HandlerArgsAuthenticated(peer, request) ==
    [request EXCEPT !.peer_id = PeerIdToString(peer)]
HandlerArgs(peer, request) == request

Init ==
    /\ rooms = EmptyMap
    /\ clock = 0
    /\ pc = "idle"
    /\ locked = FALSE
    /\ cur = NoEvent
    /\ now = NoTime
    /\ response = NoResponse
    /\ pre = EmptyMap
    /\ events = 0
    /\ lastReg = [r \in RoomNames |-> [p \in PeerStrs |-> NoTime]]
    /\ since = [r \in RoomNames |-> [p \in PeerStrs |-> NoTime]]
    /\ via = [r \in RoomNames |-> [p \in PeerStrs |-> NoConn]]
    /\ traced = FALSE
    /\ file = FileOf(ToProtobufEncoding(1))
    /\ boot = "running"
    /\ key = 1
    /\ runs = 1
    /\ persisted = NoKey
    /\ prior = NoKey
    /\ startFile = FileOf(ToProtobufEncoding(1))
    /\ gens = 0
    /\ readErr = FALSE

\* The same start, with the connection of each registration recorded.
InitTraced ==
    /\ rooms = EmptyMap
    /\ clock = 0
    /\ pc = "idle"
    /\ locked = FALSE
    /\ cur = NoEvent
    /\ now = NoTime
    /\ response = NoResponse
    /\ pre = EmptyMap
    /\ events = 0
    /\ lastReg = [r \in RoomNames |-> [p \in PeerStrs |-> NoTime]]
    /\ since = [r \in RoomNames |-> [p \in PeerStrs |-> NoTime]]
    /\ via = [r \in RoomNames |-> [p \in PeerStrs |-> NoConn]]
    /\ traced = TRUE
    /\ file = FileOf(ToProtobufEncoding(1))
    /\ boot = "running"
    /\ key = 1
    /\ runs = 1
    /\ persisted = NoKey
    /\ prior = NoKey
    /\ startFile = FileOf(ToProtobufEncoding(1))
    /\ gens = 0
    /\ readErr = FALSE

\* Time passes, whatever the event loop is doing.  Instant is monotonic.
TickWallClock ==
    /\ clock' \in (0..MaxTime) \ {clock}
    /\ UNCHANGED <<rooms, pc, locked, cur, now, response, pre, events, traced, via, lastReg, since>>
    /\ UNCHANGED idvars
Tick ==
    /\ \E d \in TickSteps : clock + d <= MaxTime /\ clock' = clock + d
    /\ UNCHANGED <<rooms, pc, locked, cur, now, response, pre, events, traced, via, lastReg, since>>
    /\ UNCHANGED idvars

\* swarm.next() yields a discovery request.  Nothing before the critical
\* section depends on the payload, which is drawn where it is first used.
RecvRequest ==
    /\ pc = "idle"
    /\ events < MaxEvents
    /\ events' = events + 1
    /\ cur' = [kind |-> "request"]
    /\ pc' = "lock_discovery"
    /\ UNCHANGED <<rooms, clock, locked, now, response, pre, traced, via, lastReg, since>>
    /\ UNCHANGED idvars

\* registry.lock().await in handle_discovery
LockDiscovery ==
    /\ pc = "lock_discovery"
    /\ ~locked
    /\ locked' = TRUE
    /\ pc' = "in_discovery"
    /\ UNCHANGED <<rooms, clock, cur, now, response, pre, events, traced, via, lastReg, since>>
    /\ UNCHANGED idvars

\* From Instant::now() to the return of handle_discovery, where the guard drops.
ApplyDiscoveryKeepGuard ==
    /\ pc = "in_discovery"
    /\ \E peer \in ConnPeers : \E request \in Requests :
          LET req == HandlerArgs(peer, request)
              out == HandleDiscovery(rooms, req, clock)
          IN  /\ cur' = [kind |-> "request", peer |-> peer, request |-> request]
              /\ rooms' = out.rooms
              /\ response' = [peers |-> out.peers]
              /\ lastReg' = [lastReg EXCEPT ![req.room][req.peer_id] = clock]
              /\ via' = IF traced
                        THEN [via EXCEPT ![req.room][req.peer_id] = peer]
                        ELSE via
              /\ since' = [since EXCEPT ![req.room][req.peer_id] =
                               IF /\ lastReg[req.room][req.peer_id] # NoTime
                                  /\ clock - lastReg[req.room][req.peer_id] < PEER_TTL
                               THEN @ ELSE clock]
    /\ now' = clock
    /\ pre' = rooms
    /\ pc' = "send"
    /\ UNCHANGED <<clock, events, locked, traced>>
    /\ UNCHANGED idvars
ApplyDiscovery ==
    /\ pc = "in_discovery"
    /\ \E peer \in ConnPeers : \E request \in Requests :
          LET req == HandlerArgs(peer, request)
              out == HandleDiscovery(rooms, req, clock)
          IN  /\ cur' = [kind |-> "request", peer |-> peer, request |-> request]
              /\ rooms' = out.rooms
              /\ response' = [peers |-> out.peers]
              /\ lastReg' = [lastReg EXCEPT ![req.room][req.peer_id] = clock]
              /\ via' = IF traced
                        THEN [via EXCEPT ![req.room][req.peer_id] = peer]
                        ELSE via
              /\ since' = [since EXCEPT ![req.room][req.peer_id] =
                               IF /\ lastReg[req.room][req.peer_id] # NoTime
                                  /\ clock - lastReg[req.room][req.peer_id] < PEER_TTL
                               THEN @ ELSE clock]
    /\ now' = clock
    /\ pre' = rooms
    /\ locked' = FALSE
    /\ pc' = "send"
    /\ UNCHANGED <<clock, events, traced>>
    /\ UNCHANGED idvars

\* send_response(channel, response): Ok, and the Discovery arm ends; or Err
\* when the exchange is closed or broken, and the warning is logged.
SendResponseRollback ==
    /\ pc = "send"
    /\ \E ok \in BOOLEAN :
          IF ok
          THEN /\ pc' = "idle"
               /\ cur' = NoEvent
               /\ now' = NoTime
               /\ rooms' = rooms
          ELSE /\ pc' = "warn"
               /\ rooms' = pre
               /\ UNCHANGED <<cur, now>>
    /\ response' = NoResponse
    /\ pre' = EmptyMap
    /\ UNCHANGED <<clock, locked, events, traced, via, lastReg, since>>
    /\ UNCHANGED idvars
SendResponse ==
    /\ pc = "send"
    /\ \E ok \in BOOLEAN :
          IF ok
          THEN /\ pc' = "idle"
               /\ cur' = NoEvent
               /\ now' = NoTime
          ELSE /\ pc' = "warn"
               /\ UNCHANGED <<cur, now>>
    /\ response' = NoResponse
    /\ pre' = EmptyMap
    /\ UNCHANGED <<rooms, clock, locked, events, traced, via, lastReg, since>>
    /\ UNCHANGED idvars

\* warn!("Failed to send discovery response to {peer}"): the arm ends, back
\* to swarm.next().
LogSendFailure ==
    /\ pc = "warn"
    /\ pc' = "idle"
    /\ cur' = NoEvent
    /\ now' = NoTime
    /\ UNCHANGED <<rooms, clock, locked, response, pre, events, traced, via, lastReg, since>>
    /\ UNCHANGED idvars

\* swarm.next() yields ConnectionClosed; the peer is drawn where it is first used.
RecvClosed ==
    /\ pc = "idle"
    /\ events < MaxEvents
    /\ events' = events + 1
    /\ cur' = [kind |-> "closed"]
    /\ pc' = "lock_remove"
    /\ UNCHANGED <<rooms, clock, locked, now, response, pre, traced, via, lastReg, since>>
    /\ UNCHANGED idvars

\* registry.lock().await in remove_peer
LockRemove ==
    /\ pc = "lock_remove"
    /\ ~locked
    /\ locked' = TRUE
    /\ pc' = "in_remove"
    /\ UNCHANGED <<rooms, clock, cur, now, response, pre, events, traced, via, lastReg, since>>
    /\ UNCHANGED idvars

\* The body of remove_peer up to its return, where the guard drops.
ApplyRemove ==
    /\ pc = "in_remove"
    /\ \E p \in ConnPeers : \E n \in 0..MaxEstablished :
          LET peer_str == PeerIdToString(p)
          IN  /\ cur' = [kind |-> "closed", peer_id |-> p, num_established |-> n]
              /\ rooms' = ConnectionClosed(rooms, p, n)
              /\ lastReg' = [r \in RoomNames |->
                                [lastReg[r] EXCEPT ![peer_str] = NoTime]]
              /\ since' = [r \in RoomNames |->
                              [since[r] EXCEPT ![peer_str] = NoTime]]
    /\ pre' = rooms
    /\ locked' = FALSE
    /\ pc' = "removed"
    /\ UNCHANGED <<clock, now, response, events, traced, via>>
    /\ UNCHANGED idvars

\* The ConnectionClosed arm ends; back to swarm.next().
FinishClosed ==
    /\ pc = "removed"
    /\ pc' = "idle"
    /\ cur' = NoEvent
    /\ pre' = EmptyMap
    /\ UNCHANGED <<rooms, clock, locked, now, response, events, traced, via, lastReg, since>>
    /\ UNCHANGED idvars

Next ==
    \/ Tick
    \/ RecvRequest
    \/ LockDiscovery
    \/ ApplyDiscovery
    \/ SendResponse
    \/ LogSendFailure
    \/ RecvClosed
    \/ LockRemove
    \/ ApplyRemove
    \/ FinishClosed

Spec == Init /\ [][Next]_vars

SpecTraced == InitTraced /\ [][Next]_vars

\* ---- startup: main() up to the event loop ----

\* The process is started with whatever is at the identity path.
InitBoot ==
    /\ rooms = EmptyMap
    /\ clock = 0
    /\ pc = "idle"
    /\ locked = FALSE
    /\ cur = NoEvent
    /\ now = NoTime
    /\ response = NoResponse
    /\ pre = EmptyMap
    /\ events = 0
    /\ lastReg = [r \in RoomNames |-> [p \in PeerStrs |-> NoTime]]
    /\ since = [r \in RoomNames |-> [p \in PeerStrs |-> NoTime]]
    /\ via = [r \in RoomNames |-> [p \in PeerStrs |-> NoConn]]
    /\ traced = FALSE
    /\ file \in IdentityFiles
    /\ boot = "start"
    /\ key = NoKey
    /\ runs = 1
    /\ persisted = NoKey
    /\ prior = NoKey
    /\ startFile = file
    /\ gens = 0
    /\ readErr = FALSE

\* fs::read and the two decoding attempts: a keypair is returned, or control
\* falls through to the generation.  fs::read of a file that exists can fail.
LoadIdentity ==
    /\ boot = "start"
    /\ \E readOk \in BOOLEAN :
          /\ readOk => file.exists
          /\ readErr' = (file.exists /\ ~readOk)
          /\ IF readOk /\ DecodeIdentity(file.data) # NoKey
             THEN /\ key' = DecodeIdentity(file.data)
                  /\ boot' = "have_key"
             ELSE /\ key' = key
                  /\ boot' = "generate"
    /\ UNCHANGED <<file, runs, persisted, prior, startFile, gens>>
    /\ UNCHANGED regvars

\* Keypair::generate_ed25519 and its encoding.
GenerateIdentity ==
    /\ boot = "generate"
    /\ \E k \in Seeds : key' = k
    /\ gens' = gens + 1
    /\ boot' = "write"
    /\ UNCHANGED <<file, runs, persisted, prior, startFile, readErr>>
    /\ UNCHANGED regvars

\* fs::write(path, &encoded).await?: the file holds the encoding and the
\* keypair is returned, or the error is returned and main() ends with it,
\* the file being as it was or cut off.
WriteIdentityIgnoreError ==
    /\ boot = "write"
    /\ \E ok \in BOOLEAN :
          IF ok
          THEN /\ file' = FileOf(ToProtobufEncoding(key))
               /\ persisted' = key
          ELSE /\ file' \in {file, FileOf(<< >>)}
               /\ persisted' = persisted
    /\ boot' = "have_key"
    /\ UNCHANGED <<key, runs, prior, startFile, gens, readErr>>
    /\ UNCHANGED regvars
WriteIdentity ==
    /\ boot = "write"
    /\ \E ok \in BOOLEAN :
          IF ok
          THEN /\ file' = FileOf(ToProtobufEncoding(key))
               /\ persisted' = key
               /\ boot' = "have_key"
          ELSE /\ file' \in {file, FileOf(<< >>)}
               /\ persisted' = persisted
               /\ boot' = "aborted"
    /\ UNCHANGED <<key, runs, prior, startFile, gens, readErr>>
    /\ UNCHANGED regvars

\* With the keypair in hand main() builds the swarm, creates the registry and
\* enters the loop.
StartLoop ==
    /\ boot = "have_key"
    /\ boot' = "running"
    /\ UNCHANGED <<file, key, runs, persisted, prior, startFile, gens, readErr>>
    /\ UNCHANGED regvars

\* The process has ended (ctrl-c, or the error of the write) and is started
\* again on the same path.
Restart ==
    /\ boot \in {"running", "aborted"}
    /\ runs < MaxRuns
    /\ runs' = runs + 1
    /\ boot' = "start"
    /\ key' = NoKey
    /\ startFile' = file
    /\ prior' = IF persisted # NoKey /\ file = FileOf(ToProtobufEncoding(persisted))
                THEN persisted ELSE NoKey
    /\ gens' = 0
    /\ readErr' = FALSE
    /\ UNCHANGED <<file, persisted>>
    /\ UNCHANGED regvars

\* Between two runs somebody replaces or deletes the identity file.
Tamper ==
    /\ boot \in {"running", "aborted"}
    /\ runs < MaxRuns
    /\ file' \in IdentityFiles \ {file}
    /\ UNCHANGED <<boot, key, runs, persisted, prior, startFile, gens, readErr>>
    /\ UNCHANGED regvars

NextBoot ==
    \/ LoadIdentity
    \/ GenerateIdentity
    \/ WriteIdentity
    \/ StartLoop
    \/ Restart
    \/ Tamper

SpecBoot == InitBoot /\ [][NextBoot]_vars

TypeOK ==
    /\ DOMAIN rooms \subseteq RoomNames
    /\ \A r \in DOMAIN rooms : DOMAIN rooms[r] \subseteq PeerStrs
    /\ clock \in 0..MaxTime
    /\ locked \in BOOLEAN

\* ---- vocabulary of the properties ----

\* The members of room r in registry rs (none when the room is absent).
Members(rs, r) == IF r \in DOMAIN rs THEN DOMAIN rs[r] ELSE {}

\* The peer ids listed in the response in hand.
RespIds == {x.peer_id : x \in response.peers}

\* A registration has been applied and its response is about to be sent.
Registered == pc = "send"

\* remove_peer has returned for cur.peer_id.
Removed == pc = "removed"

\* The age, at time t, of what was stamped at time s.
Age(t, s) == t - s

\* C1: the response of a registration is exactly the {peer_id, addrs} of the
\* entries its room holds after the prune and the upsert, minus the requester:
\* the requester is never listed, no other member is omitted, and every listed
\* peer carries the address set stored for it.
C1_ResponseIsOthers ==
    Registered =>
        LET r == cur.request.room
            me == cur.request.peer_id
        IN  /\ me \notin RespIds
            /\ \A p \in Members(rooms, r) \ {me} : p \in RespIds
            /\ \A x \in response.peers :
                  /\ x.peer_id \in Members(rooms, r)
                  /\ x.addrs = rooms[r][x.peer_id].addrs
            /\ Cardinality(response.peers) = Cardinality(Members(rooms, r)) - 1

C1_Witness ==
    /\ Registered
    /\ Cardinality(response.peers) = 2
    /\ \E x \in response.peers : x.addrs = <<"a1">>
    /\ \E x \in response.peers : x.addrs = << >>

\* C2: a peer whose registration in the room stands (registered there less
\* than TTL before, not disconnected since) is listed in the response of any
\* other peer's registration in that room, first registration or
\* re-registration alike, and the requester itself is not listed.
C2_SeesEarlierPeers ==
    Registered =>
        LET r == cur.request.room
            me == cur.request.peer_id
        IN  /\ \A p \in PeerStrs \ {me} :
                  (lastReg[r][p] # NoTime /\ Age(now, lastReg[r][p]) < PEER_TTL)
                      => p \in RespIds
            /\ me \notin RespIds

\* P1 re-registers in lobby after P2 registered there later than P1's first
\* registration, and is told about P2.
C2_Witness ==
    /\ Registered
    /\ cur.request.room = "lobby"
    /\ cur.request.peer_id = "P1"
    /\ "P1" \in Members(pre, "lobby")
    /\ "P2" \in Members(pre, "lobby")
    /\ pre["lobby"]["P1"].last_seen < pre["lobby"]["P2"].last_seen
    /\ pre["lobby"]["P2"].last_seen < now
    /\ "P2" \in RespIds

\* C3: room isolation: a peer with no standing registration in the room of a
\* registration (which is the case of every peer that never registered there,
\* whatever it did in other rooms) is not listed in that registration's
\* response.
C3_RoomIsolation ==
    Registered =>
        \A p \in PeerStrs :
            lastReg[cur.request.room][p] = NoTime => p \notin RespIds

\* A registration in "side" with a non-empty response while P1 is a fresh
\* member of "lobby" only.
C3_Witness ==
    /\ Registered
    /\ cur.request.room = "side"
    /\ response.peers # {}
    /\ "P1" \in Members(rooms, "lobby")
    /\ Age(now, rooms["lobby"]["P1"].last_seen) < PEER_TTL
    /\ lastReg["side"]["P1"] = NoTime
    /\ cur.request.peer_id # "P1"

\* C4 (eviction): when a registration by another peer finds X's last
\* registration in the room 30 seconds old or older, X is neither in the
\* response nor in the room afterwards; a room whose members are all stale
\* answers with nothing and is left with the requester alone.
C4_StaleEvicted ==
    Registered =>
        LET r == cur.request.room
            me == cur.request.peer_id
        IN  /\ \A x \in PeerStrs \ {me} :
                  (lastReg[r][x] # NoTime /\ Age(now, lastReg[r][x]) >= PEER_TTL)
                      => (x \notin RespIds /\ x \notin Members(rooms, r))
            /\ (\A p \in Members(pre, r) :
                    Age(now, pre[r][p].last_seen) >= PEER_TTL)
                  => (response.peers = {} /\ Members(rooms, r) = {me})

\* C4 (until X registers again): an entry appears in a room only by a
\* registration of that peer id in that room.
C4_BackOnlyByRegistering ==
    \A r \in RoomNames : \A x \in PeerStrs :
        (x \notin Members(rooms, r) /\ x \in Members(rooms', r))
            => /\ pc' = "send"
               /\ cur'.request.room = r
               /\ cur'.request.peer_id = x

\* C4: TTL eviction.
C4_TTLEviction == [](C4_StaleEvicted) /\ [][C4_BackOnlyByRegistering]_vars

\* P3 registers in lobby 31 seconds after P1 and P2 did.
C4_Witness ==
    /\ Registered
    /\ cur.request.room = "lobby"
    /\ cur.request.peer_id = "P3"
    /\ Members(pre, "lobby") = {"P1", "P2"}
    /\ \A p \in {"P1", "P2"} : Age(now, pre["lobby"][p].last_seen) = 31
    /\ response.peers = {}
    /\ Members(rooms, "lobby") = {"P3"}

\* C5: after remove_peer(X) no room holds an entry keyed by X, however many
\* rooms held one before, and X is in no room and in no response for as long
\* as it has not registered again.
C5_RemovedEverywhere ==
    /\ Removed =>
          \A r \in DOMAIN rooms : PeerIdToString(cur.peer_id) \notin DOMAIN rooms[r]
    /\ \A r \in RoomNames : \A p \in PeerStrs :
          lastReg[r][p] = NoTime =>
              /\ p \notin Members(rooms, r)
              /\ (Registered /\ cur.request.room = r) => p \notin RespIds

\* remove_peer(P1) has run while P1 was in both rooms.
C5_Witness ==
    /\ Removed
    /\ cur.peer_id = 1
    /\ "P1" \in Members(pre, "lobby")
    /\ "P1" \in Members(pre, "side")
    /\ \A r \in DOMAIN rooms : "P1" \notin DOMAIN rooms[r]

\* C6: whenever the registry lock is free, every room in the mapping has at
\* least one entry.
C6_NoEmptyRoom ==
    ~locked => \A r \in DOMAIN rooms : DOMAIN rooms[r] # {}

\* remove_peer has emptied and dropped one room and kept another.
C6_Witness ==
    /\ Removed
    /\ ~locked
    /\ Members(pre, "side") = {PeerIdToString(cur.peer_id)}
    /\ "side" \notin DOMAIN rooms
    /\ "lobby" \in DOMAIN rooms

\* C7: registrations take effect one at a time under the lock: while every
\* standing registration of the room is within TTL, a response lists exactly
\* the peers whose registration in the room was applied before the
\* requester's own, each once, and the room holds exactly one entry per
\* registered peer.
C7_Linearizable ==
    Registered =>
        LET r == cur.request.room
            me == cur.request.peer_id
            standing == {p \in PeerStrs : lastReg[r][p] # NoTime}
        IN  (\A p \in standing : Age(now, lastReg[r][p]) < PEER_TTL)
                => /\ ~locked
                   /\ lastReg[r][me] = now
                   /\ RespIds = standing \ {me}
                   /\ Cardinality(response.peers) = Cardinality(RespIds)
                   /\ DOMAIN rooms[r] = standing

\* Three events, all of them registrations of distinct peers in lobby.
C7_Witness ==
    /\ Registered
    /\ events = 3
    /\ cur.request.room = "lobby"
    /\ Members(rooms, "lobby") = PeerStrs
    /\ Cardinality(response.peers) = 2

\* C8: right after a registration at time `now`, every entry of its room is
\* younger than 30s at `now`, and another peer's entry that was exactly 30s
\* old has been removed.
C8_FreshAtTouch ==
    Registered =>
        LET r == cur.request.room
            me == cur.request.peer_id
        IN  /\ \A p \in DOMAIN rooms[r] :
                  Age(now, rooms[r][p].last_seen) < PEER_TTL
            /\ \A p \in Members(pre, r) \ {me} :
                  Age(now, pre[r][p].last_seen) = PEER_TTL
                      => p \notin DOMAIN rooms[r]

\* A registration finds one entry exactly 30s old and one 15s old.
C8_Witness ==
    /\ Registered
    /\ LET r == cur.request.room
           me == cur.request.peer_id
       IN  /\ \E p \in Members(pre, r) \ {me} :
                 Age(now, pre[r][p].last_seen) = PEER_TTL
           /\ \E p \in Members(rooms, r) \ {me} :
                 Age(now, rooms[r][p].last_seen) = 15

\* C9 (value): the last_seen of a stored entry is the time of the latest
\* registration of that peer id in that room.
C9_LastSeenIsLastReg ==
    \A r \in DOMAIN rooms : \A p \in DOMAIN rooms[r] :
        rooms[r][p].last_seen = lastReg[r][p]

\* C9 (frame): only a registration of that peer id in that room changes the
\* last_seen of an entry that stays.
C9_OnlyOwnRegistrationStamps ==
    \A r \in RoomNames : \A p \in PeerStrs :
        (/\ p \in Members(rooms, r)
         /\ p \in Members(rooms', r)
         /\ rooms'[r][p].last_seen # rooms[r][p].last_seen)
            => /\ pc' = "send"
               /\ cur'.request.room = r
               /\ cur'.request.peer_id = p
               /\ rooms'[r][p].last_seen = now'

\* C9: last_seen reflects the most recent registration.
C9_LastSeen == [](C9_LastSeenIsLastReg) /\ [][C9_OnlyOwnRegistrationStamps]_vars

\* A peer re-registers while its earlier, still fresh entry is in the room.
C9_Witness ==
    /\ Registered
    /\ LET r == cur.request.room
           me == cur.request.peer_id
       IN  /\ me \in Members(pre, r)
           /\ pre[r][me].last_seen < now
           /\ Age(now, pre[r][me].last_seen) < PEER_TTL
           /\ rooms[r][me].last_seen = now

\* C10: a registration is an upsert: the requester's entry is exactly the
\* request's address set (empty included) stamped `now`, whatever entry it
\* had; the other entries kept are unchanged; an empty address set is listed
\* to others as empty; a room that was absent exists afterwards.
C10_Upsert ==
    Registered =>
        LET r == cur.request.room
            me == cur.request.peer_id
        IN  /\ r \in DOMAIN rooms
            /\ me \in DOMAIN rooms[r]
            /\ rooms[r][me] = [addrs |-> cur.request.addrs, last_seen |-> now]
            /\ \A p \in DOMAIN rooms[r] \ {me} :
                  p \in Members(pre, r) /\ rooms[r][p] = pre[r][p]
            /\ \A p \in DOMAIN rooms[r] \ {me} :
                  rooms[r][p].addrs = << >>
                      => [peer_id |-> p, addrs |-> << >>] \in response.peers
            /\ r \notin DOMAIN pre => DOMAIN rooms[r] = {me}

\* A peer that registered <<"a1">> re-registers with the empty address set.
C10_Witness ==
    /\ Registered
    /\ LET r == cur.request.room
           me == cur.request.peer_id
       IN  /\ me \in Members(pre, r)
           /\ pre[r][me].addrs = <<"a1">>
           /\ cur.request.addrs = << >>
           /\ rooms[r][me].addrs = << >>
           /\ Cardinality(DOMAIN rooms[r]) = 2

\* C14 (frame): a registration in room R leaves every other room as it was:
\* same rooms, same entries, same address sets, same last_seen, stale or not.
C14_OtherRoomsUntouched ==
    Registered =>
        \A s \in RoomNames \ {cur.request.room} :
            /\ s \in DOMAIN rooms <=> s \in DOMAIN pre
            /\ s \in DOMAIN pre => rooms[s] = pre[s]

\* C14 (lazy): the passage of time changes nothing in the registry, and an
\* entry leaves it only pruned as stale by a registration in its own room or
\* by remove_peer of its peer id.
C14_LeavesOnlyByPruneOrRemove ==
    /\ clock' # clock => rooms' = rooms
    /\ \A r \in RoomNames : \A p \in PeerStrs :
          (p \in Members(rooms, r) /\ p \notin Members(rooms', r))
              => \/ /\ pc' = "send"
                    /\ cur'.request.room = r
                    /\ Age(now', rooms[r][p].last_seen) >= PEER_TTL
                 \/ /\ pc' = "removed"
                    /\ PeerIdToString(cur'.peer_id) = p

\* C14: frame of a registration and lazy eviction.
C14_LazyFrame == [](C14_OtherRoomsUntouched) /\ [][C14_LeavesOnlyByPruneOrRemove]_vars

\* The requester registers in lobby while its own entry in side is 30s old or
\* older: that entry is neither pruned nor refreshed.
C14_Witness ==
    /\ Registered
    /\ cur.request.room = "lobby"
    /\ cur.request.peer_id \in Members(rooms, "side")
    /\ Age(now, rooms["side"][cur.request.peer_id].last_seen) >= PEER_TTL
    /\ rooms["lobby"][cur.request.peer_id].last_seen = now

\* C15: remove_peer(X) keeps every entry of every other peer as it was, in
\* the same room, stale or not, and the rooms it deletes are exactly the rooms
\* with no entry left once X's is gone.
C15_RemoveFrame ==
    Removed =>
        LET x == PeerIdToString(cur.peer_id)
        IN  /\ DOMAIN rooms \subseteq DOMAIN pre
            /\ \A r \in DOMAIN pre :
                  /\ r \in DOMAIN rooms <=> DOMAIN pre[r] \ {x} # {}
                  /\ \A p \in DOMAIN pre[r] \ {x} :
                        /\ r \in DOMAIN rooms
                        /\ p \in DOMAIN rooms[r]
                        /\ rooms[r][p] = pre[r][p]
            /\ \A r \in DOMAIN rooms : DOMAIN rooms[r] = DOMAIN pre[r] \ {x}

\* remove_peer took X out of a room and left there an entry older than 30s.
C15_Witness ==
    /\ Removed
    /\ \E r \in DOMAIN rooms :
          /\ PeerIdToString(cur.peer_id) \in DOMAIN pre[r]
          /\ \E p \in DOMAIN rooms[r] :
                Age(clock, rooms[r][p].last_seen) > PEER_TTL

\* C16: the registry lock is free whenever a response is about to be sent; it
\* is held only inside handle_discovery and remove_peer.
C16_LockFreeWhileSending ==
    /\ pc = "send" => ~locked
    /\ locked => pc \in {"in_discovery", "in_remove"}

\* A non-empty response is about to be sent and the lock is free.
C16_Witness ==
    /\ pc = "send"
    /\ response.peers # {}
    /\ ~locked

\* C19 (ages): no stored last_seen is later than the clock, and the `now` of a
\* registration is not earlier than the last_seen of any entry it found, so
\* duration_since never saturates.
C19_NoFutureStamp ==
    /\ \A r \in DOMAIN rooms : \A p \in DOMAIN rooms[r] :
          rooms[r][p].last_seen <= clock
    /\ Registered =>
          \A r \in DOMAIN pre : \A p \in DOMAIN pre[r] :
              /\ pre[r][p].last_seen <= now
              /\ DurationSince(now, pre[r][p].last_seen) = now - pre[r][p].last_seen

\* C19 (order): `now` is read while the lock is held, and the stamp of a
\* registration is not earlier than the stamp of any registration applied
\* before it.
C19_StampsInOrder ==
    (pc = "in_discovery" /\ pc' = "send")
        => /\ locked
           /\ now' = clock
           /\ \A r \in RoomNames : \A p \in PeerStrs : lastReg[r][p] <= now'

\* C19: `now` is never earlier than a stored last_seen.
C19_NowAfterLock == [](C19_NoFutureStamp) /\ [][C19_StampsInOrder]_vars

\* A registration at a later time than two entries stamped at different times.
C19_Witness ==
    /\ Registered
    /\ \E r \in DOMAIN pre : \E p, q \in DOMAIN pre[r] :
          /\ pre[r][p].last_seen < pre[r][q].last_seen
          /\ pre[r][q].last_seen < now

\* C17 (state): after a failed send the registration of that request is in the
\* registry as it was applied, and the lock is free.
C17_RegistrationStays ==
    pc = "warn" =>
        LET r == cur.request.room
            me == cur.request.peer_id
        IN  /\ me \in Members(rooms, r)
            /\ rooms[r][me] = [addrs |-> cur.request.addrs, last_seen |-> now]
            /\ lastReg[r][me] = now
            /\ ~locked
            /\ ENABLED LogSendFailure

\* C17 (steps): neither the send, whatever its outcome, nor the logging of its
\* failure changes the registry; the response is dropped and never sent again;
\* the loop goes back to wait for the next event.
C17_NoRollbackNoRetry ==
    /\ pc \in {"send", "warn"} => rooms' = rooms
    /\ pc = "send" => pc' \in {"send", "warn", "idle"}
    /\ pc = "warn" => (pc' \in {"warn", "idle"} /\ response' = NoResponse)

\* C17: no rollback on delivery failure.
C17_NoRollback == [](C17_RegistrationStays) /\ [][C17_NoRollbackNoRetry]_vars

\* The response of a re-registration in a room of two could not be sent.
C17_Witness ==
    /\ pc = "warn"
    /\ Cardinality(Members(rooms, cur.request.room)) = 2
    /\ events = 3

\* C20: the entry written by a request is keyed by the peer_id of the payload,
\* whoever sent it: that entry carries the request's address set and `now`,
\* it is the one left out of the response, and the sender's own entry, when
\* the room still holds it, is unchanged and listed in the response.
C20_KeyIsPayloadPeerId ==
    Registered =>
        LET r == cur.request.room
            a == PeerIdToString(cur.peer)
            b == cur.request.peer_id
        IN  /\ b \in Members(rooms, r)
            /\ rooms[r][b] = [addrs |-> cur.request.addrs, last_seen |-> now]
            /\ b \notin RespIds
            /\ a # b =>
                  /\ a \in Members(rooms, r) <=>
                        (a \in Members(pre, r) /\ Age(now, pre[r][a].last_seen) < PEER_TTL)
                  /\ a \in Members(rooms, r) =>
                        /\ rooms[r][a] = pre[r][a]
                        /\ [peer_id |-> a, addrs |-> pre[r][a].addrs] \in response.peers

\* Peer 1 sends a request carrying P2's id while both have an entry in the
\* room: P2's entry is overwritten and P1 is told about itself.
C20_Witness ==
    /\ Registered
    /\ cur.peer = 1
    /\ cur.request.peer_id = "P2"
    /\ "P1" \in Members(pre, cur.request.room)
    /\ "P2" \in Members(pre, cur.request.room)
    /\ pre[cur.request.room]["P2"].addrs # cur.request.addrs
    /\ pre[cur.request.room]["P2"].last_seen < now
    /\ RespIds = {"P1"}

\* C11 (entry): a peer that keeps re-registering in a room, each time less
\* than 30s after the time before and with no remove_peer, has its entry in
\* the room for as long as its latest registration is younger than 30s,
\* however long ago the first one was.
C11_RefreshedEntryStays ==
    \A r \in RoomNames : \A x \in PeerStrs :
        (since[r][x] # NoTime /\ Age(clock, lastReg[r][x]) < PEER_TTL)
            => /\ x \in Members(rooms, r)
               /\ rooms[r][x].last_seen = lastReg[r][x]

\* C11 (response): such a peer is listed in the response of every other
\* peer's registration in the room, and finds its own entry when it refreshes.
C11_RefreshedPeerListed ==
    Registered =>
        LET r == cur.request.room
            me == cur.request.peer_id
        IN  /\ \A x \in PeerStrs \ {me} :
                  (since[r][x] # NoTime /\ Age(now, lastReg[r][x]) < PEER_TTL)
                      => [peer_id |-> x, addrs |-> rooms[r][x].addrs] \in response.peers
            /\ since[r][me] < now => me \in Members(pre, r)

\* C11: keep-alive by periodic re-registration.
C11_KeepAlive == C11_RefreshedEntryStays /\ C11_RefreshedPeerListed

\* P1 first registered 30s ago or more, refreshed in time, and is listed to
\* another peer that registers now.
C11_Witness ==
    /\ Registered
    /\ cur.request.peer_id # "P1"
    /\ since[cur.request.room]["P1"] # NoTime
    /\ Age(now, since[cur.request.room]["P1"]) >= PEER_TTL
    /\ "P1" \in RespIds

Returned == boot = "have_key"

\* This run began on the file an earlier run wrote, unmodified since.
Reloading == prior # NoKey

\* This run began on a path with no file.
FromNothing == ~startFile.exists

\* A run from a path with no file that returns has generated one keypair and
\* the file holds its encoding.
C13_CreatesAndPersists ==
    (Returned /\ FromNothing) =>
        /\ gens = 1
        /\ file = FileOf(ToProtobufEncoding(key))
        /\ persisted = key

C18_Outcome ==
    /\ (Returned /\ Undecodable(startFile)) =>
          /\ gens = 1
          /\ file = FileOf(ToProtobufEncoding(key))
          /\ DecodeIdentity(file.data) = key
    /\ boot = "aborted" => gens = 1

\* The steps of startup: an undecodable file sends it to the generation, the
\* generation to the write, the write to the return or to the abort; nothing
\* else aborts, and an aborted startup never reaches the loop.
C18_Steps ==
    /\ (boot = "start" /\ Undecodable(file)) => boot' = "generate"
    /\ boot = "generate" => boot' = "write"
    /\ boot = "write" => boot' \in {"have_key", "aborted"}
    /\ (boot' = "aborted" /\ boot # "aborted") => boot = "write"
    /\ boot = "aborted" => boot' \in {"aborted", "start"}
    /\ (boot' = "running" /\ boot # "running") => boot = "have_key"

\* C18: an identity file that decodes neither way does not make
\* load_or_create fail: a new identity is generated and the file overwritten
\* with it; the only failure is that of the write of a new identity, and then
\* startup aborts and the event loop is never started.
C18_FailurePolicy == []C18_Outcome /\ [][C18_Steps]_vars

\* An undecodable file has been replaced by the encoding of a new keypair.
C18_Witness ==
    /\ Returned
    /\ Undecodable(startFile)
    /\ gens = 1
    /\ file = FileOf(ToProtobufEncoding(key))
    /\ file # startFile


\* ---- C21: connection-closed events and the peer's other connections ----

\* The closed connection was not the peer's last one.
OthersOpen == Removed /\ cur.num_established > 0

\* Once the ConnectionClosed arm has run for X, no room holds X, whether or
\* not other connections of X remain and however recent X's entries were.
C21_AbsentAfterAnyClose ==
    Removed =>
        \A n \in 0..MaxEstablished :
            cur.num_established = n =>
                \A r \in RoomNames :
                    PeerIdToString(cur.peer_id) \notin Members(rooms, r)

\* A peer id that is in no room enters a room, and a room's next response
\* lists it, only after a registration under that peer id.
C21_VisibleOnlyByRegistering ==
    \A x \in PeerStrs :
        (\A r \in RoomNames : x \notin Members(rooms, r)) =>
            /\ (\E r \in RoomNames : x \in Members(rooms', r))
                  => (pc' = "send" /\ pc = "in_discovery"
                      /\ cur'.request.peer_id = x)
            /\ (pc' = "send" /\ pc = "in_discovery")
                  => x \notin {q.peer_id : q \in response'.peers}

\* C21: remove_peer runs on every connection-closed event: after the event
\* for X is handled X is in no room, even when another connection of X is
\* open and X registered less than 30 s ago, and X is visible again only
\* through its next registration.
C21_RemoveOnEveryClose ==
    []C21_AbsentAfterAnyClose /\ [][C21_VisibleOnlyByRegistering]_vars

\* A connection of P1 closed while another stayed open, less than 30 s after
\* P1 registered in lobby: P1 is gone, P2 is still there.
C21_Witness ==
    /\ OthersOpen
    /\ cur.peer_id = 1
    /\ "P1" \in Members(pre, "lobby")
    /\ Age(clock, pre["lobby"]["P1"].last_seen) < PEER_TTL
    /\ \A r \in RoomNames : "P1" \notin Members(rooms, r)
    /\ "P2" \in Members(rooms, "lobby")

====
